---- MODULE Spec2Model ----
(***************************************************************************)
(* Target classification and actor dispatch layer of the social lead      *)
(* scraper (agent-actor/src): request builders, input merger, proxy       *)
(* selector, actor invoker, Instagram fan-out and the actor entry point.  *)
(*                                                                         *)
(* Python str values are sequences of one-character strings, so that       *)
(* strip / startswith / lstrip are computed and not assumed.  JSON values  *)
(* carry a kind tag (k) so that isinstance and truthiness can be computed. *)
(***************************************************************************)
EXTENDS Integers, Sequences, FiniteSets, TLC

\* ------------------------------------------------------------------ bounds
MaxTargets == 3
MaxRunTargets == 3
MaxProxyTargets == 2
MaxPlatforms == 2
MaxAgentCalls == 2
MaxMergeCalls == 2

\* ------------------------------------------------------- JSON-like values
VNone == [k |-> "none"]
VBool(b) == [k |-> "bool", v |-> b]
VInt(n) == [k |-> "int", v |-> n]
VStr(s) == [k |-> "str", v |-> s]
VList(l) == [k |-> "list", v |-> l]
VDict(d) == [k |-> "dict", v |-> d]

IsDict(x) == x.k = "dict"

EmptyDict == [x \in {} |-> VNone]

\* Python truthiness of a value
Truthy(x) ==
    CASE x.k = "none" -> FALSE
      [] x.k = "bool" -> x.v
      [] x.k = "int" -> x.v # 0
      [] x.k = "str" -> Len(x.v) > 0
      [] x.k = "list" -> Len(x.v) > 0
      [] x.k = "dict" -> DOMAIN x.v # {}

\* dict.get(key) with the default None
Get(d, key) == IF key \in DOMAIN d THEN d[key] ELSE VNone

\* d[key] = val
Put(d, key, val) == [x \in (DOMAIN d) \cup {key} |-> IF x = key THEN val ELSE d[x]]

\* a or b
PyOr(a, b) == IF Truthy(a) THEN a ELSE b

StrList(seq) == VList([i \in 1..Len(seq) |-> VStr(seq[i])])

UrlObjects(seq) == VList([i \in 1..Len(seq) |-> VDict([url |-> VStr(seq[i])])])

\* ---------------------------------------------------------------- strings
Whitespace == {" ", "\t"}

RECURSIVE lstrip(_, _)
lstrip(s, chars) ==
    IF s = <<>> THEN <<>>
    ELSE IF Head(s) \in chars THEN lstrip(Tail(s), chars) ELSE s

RECURSIVE rstrip(_, _)
rstrip(s, chars) ==
    IF s = <<>> THEN <<>>
    ELSE IF s[Len(s)] \in chars THEN rstrip(SubSeq(s, 1, Len(s) - 1), chars) ELSE s

strip(s) == rstrip(lstrip(s, Whitespace), Whitespace)

startswith(s, prefix) ==
    Len(s) >= Len(prefix) /\ SubSeq(s, 1, Len(prefix)) = prefix

HTTP == <<"h", "t", "t", "p">>
AT == <<"@">>
HASH == <<"#">>

\* ------------------------------------------------------------ input merger
merge_inputs_concat(base, overrides) ==
    IF ~Truthy(overrides) THEN base
    ELSE [x \in (DOMAIN base) \cup (DOMAIN overrides.v) |->
            IF x \in DOMAIN overrides.v
            THEN IF IsDict(overrides.v[x]) /\ IsDict(Get(base, x))
                 THEN VDict([y \in (DOMAIN base[x].v) \cup (DOMAIN overrides.v[x].v) |->
                               IF y \in DOMAIN overrides.v[x].v
                               THEN overrides.v[x].v[y] ELSE base[x].v[y]])
                 ELSE IF overrides.v[x].k = "list" /\ Get(base, x).k = "list"
                 THEN VList(base[x].v \o overrides.v[x].v)
                 ELSE overrides.v[x]
            ELSE base[x]]

merge_inputs_deep(base, overrides) ==
    IF ~Truthy(overrides) THEN base
    ELSE [x \in (DOMAIN base) \cup (DOMAIN overrides.v) |->
            IF x \in DOMAIN overrides.v
            THEN IF IsDict(overrides.v[x]) /\ IsDict(Get(base, x))
                 THEN VDict([y \in (DOMAIN base[x].v) \cup (DOMAIN overrides.v[x].v) |->
                               IF y \notin DOMAIN overrides.v[x].v THEN base[x].v[y]
                               ELSE IF IsDict(overrides.v[x].v[y]) /\ IsDict(Get(base[x].v, y))
                               THEN VDict([z \in (DOMAIN base[x].v[y].v)
                                                   \cup (DOMAIN overrides.v[x].v[y].v) |->
                                             IF z \in DOMAIN overrides.v[x].v[y].v
                                             THEN overrides.v[x].v[y].v[z]
                                             ELSE base[x].v[y].v[z]])
                               ELSE overrides.v[x].v[y]])
                 ELSE overrides.v[x]
            ELSE base[x]]

merge_inputs(base, overrides) ==
    IF ~Truthy(overrides) THEN base
    ELSE [x \in (DOMAIN base) \cup (DOMAIN overrides.v) |->
            IF x \in DOMAIN overrides.v
            THEN IF IsDict(overrides.v[x]) /\ IsDict(Get(base, x))
                 THEN VDict([y \in (DOMAIN base[x].v) \cup (DOMAIN overrides.v[x].v) |->
                               IF y \in DOMAIN overrides.v[x].v
                               THEN overrides.v[x].v[y] ELSE base[x].v[y]])
                 ELSE overrides.v[x]
            ELSE base[x]]

\* ------------------------------------------------------- Instagram builder
NoTargets == [direct_urls |-> <<>>, usernames |-> <<>>, hashtags |-> <<>>, searches |-> <<>>]

RECURSIVE categorize_loop_dup(_, _)
categorize_loop_dup(targets, acc) ==
    IF targets = <<>> THEN acc
    ELSE LET stripped == strip(Head(targets))
             next == IF stripped = <<>> THEN acc
                     ELSE IF startswith(stripped, HTTP)
                          THEN [acc EXCEPT !.direct_urls = Append(@, stripped),
                                           !.searches = Append(@, stripped)]
                     ELSE IF startswith(stripped, AT)
                          THEN [acc EXCEPT !.usernames = Append(@, lstrip(stripped, {"@"}))]
                     ELSE IF startswith(stripped, HASH)
                          THEN [acc EXCEPT !.hashtags = Append(@, lstrip(stripped, {"#"}))]
                     ELSE [acc EXCEPT !.searches = Append(@, stripped)]
         IN categorize_loop_dup(Tail(targets), next)

RECURSIVE categorize_loop(_, _)
categorize_loop(targets, acc) ==
    IF targets = <<>> THEN acc
    ELSE LET stripped == strip(Head(targets))
             next == IF stripped = <<>> THEN acc
                     ELSE IF startswith(stripped, HTTP)
                          THEN [acc EXCEPT !.direct_urls = Append(@, stripped)]
                     ELSE IF startswith(stripped, AT)
                          THEN [acc EXCEPT !.usernames = Append(@, lstrip(stripped, {"@"}))]
                     ELSE IF startswith(stripped, HASH)
                          THEN [acc EXCEPT !.hashtags = Append(@, lstrip(stripped, {"#"}))]
                     ELSE [acc EXCEPT !.searches = Append(@, stripped)]
         IN categorize_loop(Tail(targets), next)

categorize_targets(targets) == categorize_loop(targets, NoTargets)

base_payload(max_items, include_contact_info) ==
    LET payload == [maxItems |-> VInt(max_items)]
    IN IF include_contact_info THEN Put(payload, "addUserInfo", VBool(TRUE)) ELSE payload

\* the shared "if bucket: payload[key] = bucket" step
PutIf_unguarded(d, key, seq, val) == Put(d, key, val)

PutIf(d, key, seq, val) == IF Len(seq) > 0 THEN Put(d, key, val) ELSE d

instagram_build_run_input(targets, max_items, include_contact_info, overrides) ==
    LET c == categorize_targets(targets)
        b0 == base_payload(max_items, include_contact_info)
        b1 == PutIf(b0, "directUrls", c.direct_urls, StrList(c.direct_urls))
        b2 == PutIf(b1, "usernames", c.usernames, StrList(c.usernames))
        b3 == PutIf(b2, "hashtags", c.hashtags, StrList(c.hashtags))
        b4 == IF Len(c.searches) > 0 THEN Put(b3, "search", VStr(c.searches[1])) ELSE b3
    IN merge_inputs(b4, overrides)

\* --------------------------------------------------------- TikTok builder
RECURSIVE tiktok_loop(_, _)
tiktok_loop(targets, acc) ==
    IF targets = <<>> THEN acc
    ELSE LET stripped == strip(Head(targets))
             next == IF startswith(stripped, HTTP)
                     THEN [acc EXCEPT !.direct_urls = Append(@, stripped)]
                     ELSE IF startswith(stripped, AT)
                          THEN [acc EXCEPT !.usernames = Append(@, lstrip(stripped, {"@"}))]
                     ELSE IF startswith(stripped, HASH)
                          THEN [acc EXCEPT !.hashtags = Append(@, lstrip(stripped, {"#"}))]
                     ELSE [acc EXCEPT !.searches = Append(@, stripped)]
         IN tiktok_loop(Tail(targets), next)

tiktok_build_run_input(targets, max_items, include_contact_info, overrides) ==
    LET c == tiktok_loop(targets, NoTargets)
        b0 == [maxItems |-> VInt(max_items)]
        b1 == PutIf(b0, "startUrls", c.direct_urls, UrlObjects(c.direct_urls))
        b2 == PutIf(b1, "handles", c.usernames, StrList(c.usernames))
        b3 == PutIf(b2, "hashtags", c.hashtags, StrList(c.hashtags))
        b4 == PutIf(b3, "searchTerms", c.searches, StrList(c.searches))
        b5 == IF include_contact_info THEN Put(b4, "shouldDownloadCaptions", VBool(TRUE)) ELSE b4
    IN merge_inputs(b5, overrides)

\* -------------------------------------------------------- Twitter builder
RECURSIVE twitter_loop(_, _)
twitter_loop(targets, acc) ==
    IF targets = <<>> THEN acc
    ELSE LET stripped == strip(Head(targets))
             next == IF startswith(stripped, AT)
                     THEN [acc EXCEPT !.usernames = Append(@, lstrip(stripped, {"@"}))]
                     ELSE [acc EXCEPT !.searches = Append(@, stripped)]
         IN twitter_loop(Tail(targets), next)

twitter_build_run_input(targets, max_items, include_contact_info, overrides) ==
    LET c == twitter_loop(targets, NoTargets)
        b0 == [maxItems |-> VInt(max_items)]
        b1 == PutIf(b0, "handles", c.usernames, StrList(c.usernames))
        b2 == PutIf(b1, "queries", c.searches, StrList(c.searches))
        b3 == IF include_contact_info THEN Put(b2, "includeRetweet", VBool(TRUE)) ELSE b2
    IN merge_inputs(b3, overrides)

\* ------------------------------------------------------- Facebook builder
IsHttpTarget(target) == startswith(strip(target), HTTP)

NotHttpTarget(target) == ~startswith(strip(target), HTTP)

StripAll(seq) == [i \in 1..Len(seq) |-> strip(seq[i])]

facebook_build_run_input(targets, max_items, include_contact_info, overrides) ==
    LET start_urls == StripAll(SelectSeq(targets, IsHttpTarget))
        search_terms == StripAll(SelectSeq(targets, NotHttpTarget))
        b0 == [maxItems |-> VInt(max_items)]
        b1 == PutIf(b0, "startUrls", start_urls, UrlObjects(start_urls))
        b2 == PutIf(b1, "searchTerms", search_terms, StrList(search_terms))
        b3 == IF include_contact_info THEN Put(b2, "shouldDownloadVideos", VBool(FALSE)) ELSE b2
    IN merge_inputs(b3, overrides)

\* ------------------------------------------------------- LinkedIn builder
linkedin_build_run_input_unfiltered(targets, max_items, include_contact_info, overrides) ==
    LET b0 == [profileUrls |-> StrList(targets), maxDepth |-> VInt(1)]
        b1 == IF include_contact_info THEN Put(b0, "shouldFetchContact", VBool(TRUE)) ELSE b0
        b2 == Put(b1, "maxItems", VInt(max_items))
    IN merge_inputs(b2, overrides)

linkedin_build_run_input(targets, max_items, include_contact_info, overrides) ==
    LET profile_urls == StripAll(SelectSeq(targets, IsHttpTarget))
        b0 == [profileUrls |-> StrList(IF Len(profile_urls) > 0 THEN profile_urls ELSE targets),
               maxDepth |-> VInt(1)]
        b1 == IF include_contact_info THEN Put(b0, "shouldFetchContact", VBool(TRUE)) ELSE b0
        b2 == Put(b1, "maxItems", VInt(max_items))
    IN merge_inputs(b2, overrides)

\* ------------------------------------------------------- platform dispatch
PlatformName == {"instagram", "facebook", "tiktok", "twitter", "linkedin"}

build_run_input(p, targets, max_items, include_contact_info, overrides) ==
    CASE p = "instagram" -> instagram_build_run_input(targets, max_items, include_contact_info, overrides)
      [] p = "facebook" -> facebook_build_run_input(targets, max_items, include_contact_info, overrides)
      [] p = "tiktok" -> tiktok_build_run_input(targets, max_items, include_contact_info, overrides)
      [] p = "twitter" -> twitter_build_run_input(targets, max_items, include_contact_info, overrides)
      [] p = "linkedin" -> linkedin_build_run_input(targets, max_items, include_contact_info, overrides)

\* ----------------------------------------------------------- proxy selector
LowerLetters == <<"a","b","c","d","e","f","g","h","i","j","k","l","m",
                  "n","o","p","q","r","s","t","u","v","w","x","y","z">>
UpperLetters == <<"A","B","C","D","E","F","G","H","I","J","K","L","M",
                  "N","O","P","Q","R","S","T","U","V","W","X","Y","Z">>

LowerChar(c) ==
    IF \E i \in 1..26 : UpperLetters[i] = c
    THEN LowerLetters[CHOOSE i \in 1..26 : UpperLetters[i] = c] ELSE c

UpperChar(c) ==
    IF \E i \in 1..26 : LowerLetters[i] = c
    THEN UpperLetters[CHOOSE i \in 1..26 : LowerLetters[i] = c] ELSE c

lower(s) == [i \in 1..Len(s) |-> LowerChar(s[i])]

upper(s) == [i \in 1..Len(s) |-> UpperChar(s[i])]

\* str.split(sep): the pieces between separators, empty pieces kept
RECURSIVE split_loop(_, _, _)
split_loop(s, sep, cur) ==
    IF s = <<>> THEN <<cur>>
    ELSE IF Head(s) = sep THEN <<cur>> \o split_loop(Tail(s), sep, <<>>)
    ELSE split_loop(Tail(s), sep, Append(cur, Head(s)))

split(s, sep) == split_loop(s, sep, <<>>)

NonEmptyStr(s) == Len(s) > 0

\* os.getenv(name): None when unset
getenv(e, name) == IF name \in DOMAIN e THEN VStr(e[name]) ELSE VNone

PlatformValue(p) ==
    CASE p = "instagram" -> <<"i","n","s","t","a","g","r","a","m">>
      [] p = "facebook" -> <<"f","a","c","e","b","o","o","k">>
      [] p = "tiktok" -> <<"t","i","k","t","o","k">>
      [] p = "twitter" -> <<"t","w","i","t","t","e","r">>
      [] p = "linkedin" -> <<"l","i","n","k","e","d","i","n">>

RESIDENTIAL == <<"R","E","S","I","D","E","N","T","I","A","L">>

STR_TRUE == <<"t","r","u","e">>
STR_ROTATE == <<"r","o","t","a","t","e">>
STR_STICKY == <<"s","t","i","c","k","y">>
ProxyOffWords == {<<"0">>, <<"f","a","l","s","e">>, <<"n","o">>, <<"o","f","f">>}

proxy_use_proxy(e) ==
    lower(strip(PyOr(IF "APIFY_USE_PROXY" \in DOMAIN e THEN VStr(e["APIFY_USE_PROXY"])
                     ELSE VStr(STR_TRUE), VStr(<<>>)).v))

proxy_groups(e) ==
    IF "APIFY_PROXY_GROUPS" \in DOMAIN e
    THEN SelectSeq(StripAll(split(e["APIFY_PROXY_GROUPS"], ",")), NonEmptyStr)
    ELSE <<RESIDENTIAL>>

proxy_session_mode(e) ==
    lower(strip(PyOr(getenv(e, "APIFY_PROXY_SESSION_MODE"), VStr(STR_ROTATE)).v))

proxy_enabled(e) == proxy_use_proxy(e) \notin ProxyOffWords /\ Len(proxy_groups(e)) > 0

\* TRUE when _default_proxy_configuration reaches uuid.uuid4()
proxy_draws_uuid(e) == proxy_enabled(e) /\ proxy_session_mode(e) = STR_STICKY

default_proxy_configuration_any_groups(e, p, uuid_hex) ==
    IF proxy_use_proxy(e) \in ProxyOffWords THEN VNone
    ELSE LET c0 == [useApifyProxy |-> VBool(TRUE), groups |-> StrList(proxy_groups(e))]
             country_env == PyOr(getenv(e, "APIFY_PROXY_COUNTRY_CODE"),
                                 getenv(e, "APIFY_PROXY_COUNTRY"))
             c1 == IF Truthy(country_env)
                   THEN Put(c0, "countryCode", VStr(upper(strip(country_env.v)))) ELSE c0
             prefix0 == strip(PyOr(getenv(e, "APIFY_PROXY_SESSION_PREFIX"),
                                   VStr(PlatformValue(p))).v)
             prefix == IF Len(prefix0) > 0 THEN prefix0 ELSE PlatformValue(p)
             c2 == IF proxy_session_mode(e) = STR_STICKY
                   THEN Put(c1, "session", VStr(prefix \o <<"-">> \o uuid_hex)) ELSE c1
         IN VDict(c2)

default_proxy_configuration(e, p, uuid_hex) ==
    IF proxy_use_proxy(e) \in ProxyOffWords THEN VNone
    ELSE IF Len(proxy_groups(e)) = 0 THEN VNone
    ELSE LET c0 == [useApifyProxy |-> VBool(TRUE), groups |-> StrList(proxy_groups(e))]
             country_env == PyOr(getenv(e, "APIFY_PROXY_COUNTRY_CODE"),
                                 getenv(e, "APIFY_PROXY_COUNTRY"))
             c1 == IF Truthy(country_env)
                   THEN Put(c0, "countryCode", VStr(upper(strip(country_env.v)))) ELSE c0
             prefix0 == strip(PyOr(getenv(e, "APIFY_PROXY_SESSION_PREFIX"),
                                   VStr(PlatformValue(p))).v)
             prefix == IF Len(prefix0) > 0 THEN prefix0 ELSE PlatformValue(p)
             c2 == IF proxy_session_mode(e) = STR_STICKY
                   THEN Put(c1, "session", VStr(prefix \o <<"-">> \o uuid_hex)) ELSE c1
         IN VDict(c2)

\* the "if 'proxyConfiguration' not in run_input" block shared by the dispatch paths
with_proxy_always(run_input, e, p, uuid_hex) ==
    LET proxy_configuration == default_proxy_configuration(e, p, uuid_hex)
    IN IF Truthy(proxy_configuration)
       THEN Put(run_input, "proxyConfiguration", proxy_configuration)
       ELSE run_input

with_proxy(run_input, e, p, uuid_hex) ==
    IF "proxyConfiguration" \notin DOMAIN run_input
    THEN LET proxy_configuration == default_proxy_configuration(e, p, uuid_hex)
         IN IF Truthy(proxy_configuration)
            THEN Put(run_input, "proxyConfiguration", proxy_configuration)
            ELSE run_input
    ELSE run_input

\* ------------------------------------------------------------ actor invoker
ActorId(p) ==
    CASE p = "instagram" -> "apify/instagram-scraper"
      [] p = "facebook" -> "apify/facebook-posts-scraper"
      [] p = "tiktok" -> "clockworks/tiktok-scraper"
      [] p = "twitter" -> "apidojo/tweet-scraper"
      [] p = "linkedin" -> "dev_fusion/linkedin-profile-scraper"

VRaise(exc) == [k |-> "raise", v |-> exc]

NoError == [type |-> "", actor_id |-> "", cause |-> ""]

Returned(items) == [kind |-> "returned", value |-> items, error |-> NoError]

Raised(type, actor_id, cause) ==
    [kind |-> "raised", value |-> <<>>,
     error |-> [type |-> type, actor_id |-> actor_id, cause |-> cause]]

NoOutcome == [kind |-> "none", value |-> <<>>, error |-> NoError]

dataset_id_of(run) ==
    PyOr(PyOr(PyOr(Get(run, "defaultDatasetId"), Get(run, "default_dataset_id")),
              Get(run, "datasetId")), Get(run, "outputDatasetId"))

\* beh.call: what actor(...).call does (raise / None / run dict);
\* beh.fetch: what dataset(...).list_items(...).items does (raise / None / list)
resolve_run_items_first(run, beh) ==
    IF Get(run, "items") # VNone THEN Returned(Get(run, "items").v)
    ELSE IF Truthy(dataset_id_of(run))
    THEN IF beh.fetch.k = "raise" THEN Raised(beh.fetch.v, "", "")
         ELSE Returned(IF Truthy(beh.fetch) THEN beh.fetch.v ELSE <<>>)
    ELSE LET output == IF "output" \in DOMAIN run THEN run["output"] ELSE VDict(EmptyDict)
         IN IF IsDict(output) /\ "items" \in DOMAIN output.v
            THEN Returned(IF Truthy(output.v["items"]) THEN output.v["items"].v ELSE <<>>)
            ELSE Returned(<<>>)

resolve_run(run, beh) ==
    IF Truthy(dataset_id_of(run))
    THEN IF beh.fetch.k = "raise" THEN Raised(beh.fetch.v, "", "")
         ELSE Returned(IF Truthy(beh.fetch) THEN beh.fetch.v ELSE <<>>)
    ELSE IF Get(run, "items") # VNone THEN Returned(Get(run, "items").v)
    ELSE LET output == IF "output" \in DOMAIN run THEN run["output"] ELSE VDict(EmptyDict)
         IN IF IsDict(output) /\ "items" \in DOMAIN output.v
            THEN Returned(IF Truthy(output.v["items"]) THEN output.v["items"].v ELSE <<>>)
            ELSE Returned(<<>>)

call_actor_empty_raises(actor_id, beh) ==
    IF beh.call.k = "raise" THEN Raised("RuntimeError", actor_id, beh.call.v)
    ELSE IF ~Truthy(beh.call) THEN Raised("RuntimeError", actor_id, "no run")
    ELSE LET out == resolve_run(beh.call.v, beh)
         IN IF out.kind = "returned" /\ out.value = <<>>
            THEN Raised("RuntimeError", actor_id, "no items") ELSE out

call_actor(actor_id, beh) ==
    IF beh.call.k = "raise" THEN Raised("RuntimeError", actor_id, beh.call.v)
    ELSE IF ~Truthy(beh.call) THEN Returned(<<>>)
    ELSE resolve_run(beh.call.v, beh)

\* TRUE when _call_actor reaches dataset(...).list_items
fetches_dataset(beh) ==
    beh.call.k = "dict" /\ Truthy(beh.call) /\ Truthy(dataset_id_of(beh.call.v))

\* ------------------------------------------------------------------ state
VARIABLES
    call,            \* arguments of the tool call: platform, targets, max_items, ...
    env,             \* process environment (proxy policy)
    pc,              \* position of the tool handler
    search_idx,      \* Instagram _run: index of the next search query
    results,         \* Instagram _run: local list of accumulated records
    sent,            \* history: run_input of every actor(...).call, in issue order
    returns,         \* history: records returned by every completed _call_actor
    outcome,         \* what reaches the caller of the handler
    uuids,           \* number of uuid4 values drawn so far
    fetches,         \* number of dataset list_items calls so far
    last,            \* history: remote behaviour seen by the latest _call_actor
    run_input,       \* request built by _build_run_input
    classified,      \* buckets of _categorize_targets
    mpc,             \* position of main()
    apify_token,     \* APIFY_TOKEN present
    actor_input,     \* Actor.get_input()
    platform_configs,\* validated PlatformTargetConfig platforms
    tool_instances,  \* platforms whose tool was constructed
    charges,         \* history: Actor.charge events
    warnings,        \* history: platforms logged as having no tool
    invocations,     \* history: number of remote invocations made during kickoff
    merror,          \* ValueError message raised by main(), "" when none
    heap,            \* merge_inputs: the dict objects, by identity
    merge_base,      \* merge_inputs: identity of the caller's base dict
    merge_overrides, \* merge_inputs: identity of the overrides dict, 0 for None
    merge_returned,  \* history: identity of the dict each merge_inputs call returned
    merge_snapshot   \* history: contents of the caller's dicts before the first call

toolVars == <<call, env, pc, search_idx, results, sent, returns, outcome, uuids,
              fetches, last, run_input, classified>>

mainVars == <<mpc, apify_token, actor_input, platform_configs, tool_instances,
              charges, warnings, invocations, merror>>

mergeVars == <<heap, merge_base, merge_overrides, merge_returned, merge_snapshot>>

vars == <<call, env, pc, search_idx, results, sent, returns, outcome, uuids,
          fetches, last, run_input, classified, mpc, apify_token, actor_input,
          platform_configs, tool_instances, charges, warnings, invocations, merror,
          heap, merge_base, merge_overrides, merge_returned, merge_snapshot>>

\* ----------------------------------------------------------- input domains
DefaultMaxItems == 25

SeqsUpTo(S, n) == UNION {[1..m -> S] : m \in 0..n}

URL_A == <<"h", "t", "t", "p", "a">>

BuildTargetStrings ==
    {<<>>, <<" ">>, URL_A, <<" ", "h", "t", "t", "p", "b", "\t">>, <<"@", "b">>, <<"@">>,
     <<"#", "d">>, <<"#">>, <<"s">>, <<" ", "q", " ">>}

BuildOverrides == {VNone, VDict(EmptyDict), VDict([maxItems |-> VInt(5)])}

RunTargetStrings == {URL_A, <<"@", "b">>, <<"#", "d">>, <<"s">>, <<"q">>, <<" ">>}

RunOverrides == {VNone}

ProxyTargetStrings == {<<"@", "b">>, <<"s">>, <<" ">>}

ProxyOverrides ==
    {VNone, VDict(EmptyDict), VDict([maxItems |-> VInt(5)]),
     VDict([proxyConfiguration |-> VNone]),
     VDict([proxyConfiguration |-> VDict(EmptyDict)]),
     VDict([proxyConfiguration |-> VDict([useApifyProxy |-> VBool(FALSE)])])}

NoEnv == [x \in {} |-> <<>>]

ProxyEnvs ==
    {NoEnv,
     [APIFY_USE_PROXY |-> <<" ", "F", "a", "l", "s", "e">>],
     [APIFY_USE_PROXY |-> <<>>],
     [APIFY_PROXY_GROUPS |-> <<>>],
     [APIFY_PROXY_GROUPS |-> <<" ", "R", ",", " ", ",", "D">>],
     [APIFY_PROXY_SESSION_MODE |-> <<"S", "t", "i", "c", "k", "y", " ">>],
     [APIFY_PROXY_SESSION_MODE |-> STR_STICKY, APIFY_PROXY_SESSION_PREFIX |-> <<" ", "p", " ">>],
     [APIFY_PROXY_SESSION_MODE |-> STR_STICKY, APIFY_PROXY_SESSION_PREFIX |-> <<" ">>],
     [APIFY_PROXY_COUNTRY_CODE |-> <<" ", "u", "s">>],
     [APIFY_PROXY_COUNTRY |-> <<"g", "b">>, APIFY_USE_PROXY |-> <<"o", "f", "f">>]}

ToolCalls(targetStrings, maxLen, overridesSet) ==
    [platform : PlatformName,
     targets : SeqsUpTo(targetStrings, maxLen),
     max_items : {DefaultMaxItems},
     include_contact_info : BOOLEAN,
     input_overrides : overridesSet]

\* remote behaviours seen by the tool handlers
DS1 == <<"d", "1">>

RunBehaviours ==
    {[call |-> VRaise("ApifyApiError"), fetch |-> VNone],
     [call |-> VNone, fetch |-> VNone],
     [call |-> VDict([items |-> VList(<<"r2">>)]), fetch |-> VNone],
     [call |-> VDict([output |-> VDict([items |-> VList(<<"r1">>)])]), fetch |-> VNone]}
    \cup
    {[call |-> VDict([defaultDatasetId |-> VStr(DS1)]), fetch |-> f] :
        f \in {VRaise("ApifyApiError"), VList(<<>>), VList(<<"r1">>)}}

\* remote behaviours seen by the actor invoker alone: every combination of the
\* run envelope's optional fields
Absent == [k |-> "absent"]

EnvelopeKeys == {"defaultDatasetId", "default_dataset_id", "datasetId", "outputDatasetId",
                 "items", "output"}

EnvelopeChoices ==
    [defaultDatasetId : {Absent, VNone, VStr(<<>>), VStr(DS1)},
     default_dataset_id : {Absent, VStr(<<"d", "2">>)},
     datasetId : {Absent, VStr(<<"d", "3">>)},
     outputDatasetId : {Absent, VStr(<<"d", "4">>)},
     items : {Absent, VNone, VList(<<>>), VList(<<"r1">>)},
     output : {Absent, VNone, VStr(<<"x">>), VDict(EmptyDict), VDict([items |-> VNone]),
               VDict([items |-> VList(<<>>)]), VDict([items |-> VList(<<"r2">>)])}]

Envelope(c) == [x \in {y \in EnvelopeKeys : c[y] # Absent} |-> c[x]]

FetchBehaviours == {VRaise("ApifyApiError"), VNone, VList(<<>>), VList(<<"r3">>)}

InvokeBehaviours ==
    {[call |-> VRaise("ApifyApiError"), fetch |-> VNone], [call |-> VNone, fetch |-> VNone]}
    \cup
    {[call |-> VDict(Envelope(c)), fetch |-> f] : c \in EnvelopeChoices, f \in FetchBehaviours}

IdleCall == [platform |-> "instagram", targets |-> <<>>, max_items |-> DefaultMaxItems,
             include_contact_info |-> TRUE, input_overrides |-> VNone]

NoBehaviour == [call |-> VNone, fetch |-> VNone]

IdleInput == [query |-> VNone, maxLeads |-> VNone, platforms |-> <<>>]

ToolIdle ==
    /\ search_idx = 1 /\ results = <<>> /\ sent = <<>> /\ returns = <<>>
    /\ outcome = NoOutcome /\ uuids = 0 /\ fetches = 0 /\ last = NoBehaviour
    /\ run_input = EmptyDict /\ classified = NoTargets

MainIdle ==
    /\ platform_configs = <<>> /\ tool_instances = {} /\ charges = <<>>
    /\ warnings = {} /\ invocations = 0 /\ merror = ""

MainOff == mpc = "off" /\ apify_token = FALSE /\ actor_input = IdleInput /\ MainIdle

NoHeap == [i \in {} |-> EmptyDict]

MergeOff ==
    /\ heap = NoHeap /\ merge_base = 0 /\ merge_overrides = 0 /\ merge_returned = <<>>
    /\ merge_snapshot = NoHeap

\* ------------------------------------------------ request builders (pure)
Build ==
    /\ pc = "build"
    /\ run_input' = build_run_input(call.platform, call.targets, call.max_items,
                                    call.include_contact_info, call.input_overrides)
    /\ classified' = categorize_targets(call.targets)
    /\ pc' = "built"
    /\ UNCHANGED <<call, env, search_idx, results, sent, returns, outcome, uuids,
                   fetches, last>>
    /\ UNCHANGED mainVars
    /\ UNCHANGED mergeVars

InitBuild ==
    /\ call \in ToolCalls(BuildTargetStrings, MaxTargets, BuildOverrides)
    /\ env = NoEnv
    /\ pc = "build"
    /\ ToolIdle /\ MainOff /\ MergeOff

SpecBuild == InitBuild /\ [][Build]_vars

\* ------------------------------------------------------ actor invoker alone
Invoke_retried ==
    /\ pc = "invoke"
    /\ \E beh \in InvokeBehaviours :
         /\ last' = beh
         /\ outcome' = call_actor(ActorId(call.platform), beh)
         /\ fetches' = fetches + (IF fetches_dataset(beh) THEN 1 ELSE 0)
         /\ sent' = IF beh.call.k = "raise" THEN sent \o <<run_input, run_input>>
                    ELSE Append(sent, run_input)
    /\ pc' = "invoked"
    /\ UNCHANGED <<call, env, search_idx, results, returns, uuids, run_input, classified>>
    /\ UNCHANGED mainVars
    /\ UNCHANGED mergeVars

Invoke ==
    /\ pc = "invoke"
    /\ \E beh \in InvokeBehaviours :
         /\ last' = beh
         /\ outcome' = call_actor(ActorId(call.platform), beh)
         /\ fetches' = fetches + (IF fetches_dataset(beh) THEN 1 ELSE 0)
    /\ sent' = Append(sent, run_input)
    /\ pc' = "invoked"
    /\ UNCHANGED <<call, env, search_idx, results, returns, uuids, run_input, classified>>
    /\ UNCHANGED mainVars
    /\ UNCHANGED mergeVars

InitInvoke ==
    /\ call \in {[IdleCall EXCEPT !.platform = p] : p \in PlatformName}
    /\ env = NoEnv
    /\ pc = "invoke"
    /\ ToolIdle /\ MainOff /\ MergeOff

SpecInvoke == InitInvoke /\ [][Invoke]_vars

\* ------------------------------------------------------------ tool handlers
\* one remote invocation: proxy injection, actor(...).call, result resolution
Invocation_shared_session(run_input0, beh) ==
    /\ sent' = Append(sent, with_proxy(run_input0, env, call.platform, <<ToString(1)>>))
    /\ uuids' = IF "proxyConfiguration" \notin DOMAIN run_input0 /\ proxy_draws_uuid(env)
                 THEN 1 ELSE uuids
    /\ fetches' = fetches + (IF fetches_dataset(beh) THEN 1 ELSE 0)

Invocation(run_input0, beh) ==
    /\ sent' = Append(sent, with_proxy(run_input0, env, call.platform, <<ToString(uuids + 1)>>))
    /\ uuids' = uuids + (IF "proxyConfiguration" \notin DOMAIN run_input0 /\ proxy_draws_uuid(env)
                         THEN 1 ELSE 0)
    /\ fetches' = fetches + (IF fetches_dataset(beh) THEN 1 ELSE 0)

\* BasePlatformTool._run
GenericRun ==
    /\ pc = "start"
    /\ call.platform # "instagram"
    /\ \E beh \in RunBehaviours :
         LET out == call_actor(ActorId(call.platform), beh)
         IN /\ Invocation(build_run_input(call.platform, call.targets, call.max_items,
                                          call.include_contact_info, call.input_overrides), beh)
            /\ outcome' = out
            /\ returns' = IF out.kind = "returned" THEN Append(returns, out.value) ELSE returns
    /\ pc' = "done"
    /\ UNCHANGED <<call, env, search_idx, results, last, run_input, classified>>
    /\ UNCHANGED mainVars
    /\ UNCHANGED mergeVars

\* InstagramScraperTool._run
ig_overrides == PyOr(call.input_overrides, VDict(EmptyDict))

ig_buckets == categorize_targets(call.targets)

combined_needed ==
    Len(ig_buckets.direct_urls) > 0 \/ Len(ig_buckets.usernames) > 0 \/ Len(ig_buckets.hashtags) > 0

combined_payload ==
    LET c == ig_buckets
        p0 == base_payload(call.max_items, call.include_contact_info)
        p1 == PutIf(p0, "directUrls", c.direct_urls, StrList(c.direct_urls))
        p2 == PutIf(p1, "usernames", c.usernames, StrList(c.usernames))
    IN PutIf(p2, "hashtags", c.hashtags, StrList(c.hashtags))

search_payload(search_query) ==
    Put(base_payload(call.max_items, call.include_contact_info), "search", VStr(search_query))

\* results.extend(self._dispatch(...)) and what the handler does next: the
\* exception propagates, the loop continues, the results are returned, or the
\* fallback is reached
AfterDispatch(out, next_idx) ==
    IF out.kind = "raised"
    THEN /\ outcome' = out
         /\ pc' = "done"
         /\ UNCHANGED <<results, returns, search_idx>>
    ELSE /\ results' = results \o out.value
         /\ returns' = Append(returns, out.value)
         /\ search_idx' = next_idx
         /\ IF next_idx <= Len(ig_buckets.searches)
            THEN pc' = "searches" /\ outcome' = outcome
            ELSE IF Len(results \o out.value) > 0
                 THEN pc' = "done" /\ outcome' = Returned(results \o out.value)
                 ELSE pc' = "fallback" /\ outcome' = outcome

InstagramCombined ==
    /\ pc = "start"
    /\ call.platform = "instagram"
    /\ combined_needed
    /\ \E beh \in RunBehaviours :
         /\ Invocation(merge_inputs(combined_payload, ig_overrides), beh)
         /\ AfterDispatch(call_actor(ActorId(call.platform), beh), search_idx)
    /\ UNCHANGED <<call, env, last, run_input, classified>>
    /\ UNCHANGED mainVars
    /\ UNCHANGED mergeVars

InstagramSearch ==
    /\ call.platform = "instagram"
    /\ (pc = "start" /\ ~combined_needed) \/ pc = "searches"
    /\ search_idx <= Len(ig_buckets.searches)
    /\ \E beh \in RunBehaviours :
         /\ Invocation(merge_inputs(search_payload(ig_buckets.searches[search_idx]),
                                    ig_overrides), beh)
         /\ AfterDispatch(call_actor(ActorId(call.platform), beh), search_idx + 1)
    /\ UNCHANGED <<call, env, last, run_input, classified>>
    /\ UNCHANGED mainVars
    /\ UNCHANGED mergeVars

InstagramFallbackSkipped ==
    /\ call.platform = "instagram"
    /\ (pc = "start" /\ ~combined_needed /\ Len(ig_buckets.searches) = 0) \/ pc = "fallback"
    /\ outcome' = Returned(results)
    /\ pc' = "done"
    /\ UNCHANGED <<call, env, search_idx, results, sent, returns, uuids, fetches, last,
                   run_input, classified>>
    /\ UNCHANGED mainVars
    /\ UNCHANGED mergeVars

InstagramFallback ==
    /\ call.platform = "instagram"
    /\ (pc = "start" /\ ~combined_needed /\ Len(ig_buckets.searches) = 0) \/ pc = "fallback"
    /\ \E beh \in RunBehaviours :
         LET out == call_actor(ActorId(call.platform), beh)
         IN /\ Invocation(instagram_build_run_input(call.targets, call.max_items,
                                                    call.include_contact_info, ig_overrides), beh)
            /\ outcome' = out
            /\ returns' = IF out.kind = "returned" THEN Append(returns, out.value) ELSE returns
    /\ pc' = "done"
    /\ UNCHANGED <<call, env, search_idx, results, last, run_input, classified>>
    /\ UNCHANGED mainVars
    /\ UNCHANGED mergeVars

RunNext == GenericRun \/ InstagramCombined \/ InstagramSearch \/ InstagramFallback

InitRun ==
    /\ call \in ToolCalls(RunTargetStrings, MaxRunTargets, RunOverrides)
    /\ env \in {NoEnv}
    /\ pc = "start"
    /\ ToolIdle /\ MainOff /\ MergeOff

SpecRun == InitRun /\ [][RunNext]_vars

InitProxy ==
    /\ call \in ToolCalls(ProxyTargetStrings, MaxProxyTargets, ProxyOverrides)
    /\ env \in ProxyEnvs
    /\ pc = "start"
    /\ ToolIdle /\ MainOff /\ MergeOff

SpecProxy == InitProxy /\ [][RunNext]_vars

\* ------------------------------------------------------------------ main()
TOOL_BUILDERS == [p \in PlatformName |-> ActorId(p)]

RawPlatformNames == PlatformName \cup {"myspace"}

SomeTargets == VList(<<VStr(<<"@", "b">>)>>)

\* raw platform configurations: well-formed, maxItems below 1, targets missing
RawPlatforms ==
    [platform : RawPlatformNames, targets : {SomeTargets}, maxItems : {0, DefaultMaxItems}]
    \cup [platform : RawPlatformNames, targets : {VNone}, maxItems : {DefaultMaxItems}]

ActorInputs ==
    [query : {VNone, VStr(<<"q">>)},
     maxLeads : {VNone, VStr(<<"x">>)},
     platforms : SeqsUpTo(RawPlatforms, MaxPlatforms)]

\* PlatformTargetConfig.model_validate: platform is a PlatformName, targets is
\* a list, maxItems >= 1
model_validate_ok(raw_platform) ==
    /\ raw_platform.platform \in PlatformName
    /\ raw_platform.targets.k = "list"
    /\ raw_platform.maxItems >= 1

\* int(actor_input.get('maxLeads', 100)) raises ValueError on a non-numeric string
max_leads_ok(input) == input.maxLeads.k # "str"

SeqRange(seq) == {seq[i] : i \in 1..Len(seq)}

MainFail_logged(msg) ==
    /\ merror' = msg
    /\ mpc' = "kickoff"

MainFail(msg) ==
    /\ merror' = msg
    /\ mpc' = "failed"

MainCheckTokenChargeFirst ==
    /\ mpc = "start"
    /\ charges' = Append(charges, "actor-start")
    /\ IF ~apify_token
       THEN MainFail("APIFY_TOKEN environment variable must be set for authentication.")
       ELSE mpc' = "read_input" /\ merror' = merror
    /\ UNCHANGED <<apify_token, actor_input, platform_configs, tool_instances,
                   warnings, invocations>>
    /\ UNCHANGED toolVars
    /\ UNCHANGED mergeVars

MainCheckToken ==
    /\ mpc = "start"
    /\ IF ~apify_token
       THEN MainFail("APIFY_TOKEN environment variable must be set for authentication.")
       ELSE mpc' = "charge_start" /\ merror' = merror
    /\ UNCHANGED <<apify_token, actor_input, platform_configs, tool_instances, charges,
                   warnings, invocations>>
    /\ UNCHANGED toolVars
    /\ UNCHANGED mergeVars

MainChargeStart ==
    /\ mpc = "charge_start"
    /\ charges' = Append(charges, "actor-start")
    /\ mpc' = "read_input"
    /\ UNCHANGED <<apify_token, actor_input, platform_configs, tool_instances,
                   warnings, invocations, merror>>
    /\ UNCHANGED toolVars
    /\ UNCHANGED mergeVars

MainReadInput ==
    /\ mpc = "read_input"
    /\ IF ~max_leads_ok(actor_input)
       THEN MainFail("invalid literal for int()")
       ELSE IF ~Truthy(actor_input.query)
       THEN MainFail("Missing \"query\" attribute in input!")
       ELSE IF Len(actor_input.platforms) = 0
       THEN MainFail("At least one platform configuration is required.")
       ELSE mpc' = "validate" /\ merror' = merror
    /\ UNCHANGED <<apify_token, actor_input, platform_configs, tool_instances, charges,
                   warnings, invocations>>
    /\ UNCHANGED toolVars
    /\ UNCHANGED mergeVars

MainValidatePlatforms ==
    /\ mpc = "validate"
    /\ IF \E i \in 1..Len(actor_input.platforms) : ~model_validate_ok(actor_input.platforms[i])
       THEN MainFail("Invalid platform configuration") /\ platform_configs' = platform_configs
       ELSE /\ platform_configs' = actor_input.platforms
            /\ mpc' = "build_tools" /\ merror' = merror
    /\ UNCHANGED <<apify_token, actor_input, tool_instances, charges, warnings, invocations>>
    /\ UNCHANGED toolVars
    /\ UNCHANGED mergeVars

MainBuildTools ==
    /\ mpc = "build_tools"
    /\ LET unique_platforms == {platform_configs[i].platform : i \in 1..Len(platform_configs)}
           built == {p \in unique_platforms : p \in DOMAIN TOOL_BUILDERS}
       IN /\ warnings' = unique_platforms \ built
          /\ tool_instances' = built
          /\ IF built = {}
             THEN MainFail("No tools available for the requested platforms.")
             ELSE mpc' = "kickoff" /\ merror' = merror
    /\ UNCHANGED <<apify_token, actor_input, platform_configs, charges, invocations>>
    /\ UNCHANGED toolVars
    /\ UNCHANGED mergeVars

\* crew.kickoff(): the agent calls the tools it was given, each call is a
\* remote invocation
AgentToolCall ==
    /\ mpc = "kickoff"
    /\ invocations < MaxAgentCalls
    /\ \E tool \in tool_instances : invocations' = invocations + 1
    /\ UNCHANGED <<mpc, apify_token, actor_input, platform_configs, tool_instances, charges,
                   warnings, merror>>
    /\ UNCHANGED toolVars
    /\ UNCHANGED mergeVars

MainFinish ==
    /\ mpc = "kickoff"
    /\ charges' = Append(charges, "task-completed")
    /\ mpc' = "done"
    /\ UNCHANGED <<apify_token, actor_input, platform_configs, tool_instances,
                   warnings, invocations, merror>>
    /\ UNCHANGED toolVars
    /\ UNCHANGED mergeVars

MainNext ==
    \/ MainCheckToken
    \/ MainChargeStart
    \/ MainReadInput
    \/ MainValidatePlatforms
    \/ MainBuildTools
    \/ AgentToolCall
    \/ MainFinish

InitMain ==
    /\ mpc = "start"
    /\ apify_token \in BOOLEAN
    /\ actor_input \in ActorInputs
    /\ MainIdle
    /\ call = IdleCall /\ env = NoEnv /\ pc = "off" /\ ToolIdle /\ MergeOff

SpecMain == InitMain /\ [][MainNext]_vars

\* ------------------------------------------------------ input merger alone
\* values the merger meets: scalars, arrays, mappings whose entries are scalars
\* or mappings one level deeper
Deep1 == VDict([r |-> VInt(1)])

Deep2 == VDict([s |-> VInt(2)])

Present(c, keys) == [x \in {y \in keys : c[y] # Absent} |-> c[x]]

NestedMappings ==
    {VDict(Present(c, {"p", "q"})) :
        c \in [p : {Absent, VInt(1), Deep1, Deep2}, q : {Absent, VInt(2)}]}

MergeValues ==
    {VInt(1), VInt(2), VList(<<VInt(1)>>), VList(<<VInt(2)>>)} \cup NestedMappings

MergeMappings ==
    {Present(c, {"x", "y"}) :
        c \in [x : MergeValues \cup {Absent}, y : MergeValues \cup {Absent}]}

\* the overrides argument of the pending call: None or the overrides dict
overrides_arg == IF merge_overrides = 0 THEN VNone ELSE VDict(heap[merge_overrides])

\* one call of merge_inputs: on the caller's base first, then on the dict the
\* previous call returned, with the same overrides; "merged = {**base}" makes
\* a new dict object, which is the one returned
MergeInputs_aliased ==
    /\ pc = "off"
    /\ Len(merge_returned) < MaxMergeCalls
    /\ LET base == IF merge_returned = <<>> THEN merge_base
                   ELSE merge_returned[Len(merge_returned)]
           merged == 3 + Len(merge_returned)
       IN IF ~Truthy(overrides_arg)
          THEN /\ heap' = heap
               /\ merge_returned' = Append(merge_returned, base)
          ELSE /\ heap' = [i \in DOMAIN heap \cup {merged} |->
                             IF i = merged THEN merge_inputs(heap[base], overrides_arg)
                             ELSE heap[i]]
               /\ merge_returned' = Append(merge_returned, merged)
    /\ UNCHANGED <<merge_base, merge_overrides, merge_snapshot>>
    /\ UNCHANGED toolVars
    /\ UNCHANGED mainVars

\* the same call with "merged = base" in place of "merged = {**base}": the
\* item assignments land in the caller's dict
MergeInputs_in_place ==
    /\ pc = "off"
    /\ Len(merge_returned) < MaxMergeCalls
    /\ LET base == IF merge_returned = <<>> THEN merge_base
                   ELSE merge_returned[Len(merge_returned)]
       IN /\ heap' = [heap EXCEPT ![base] = merge_inputs(heap[base], overrides_arg)]
          /\ merge_returned' = Append(merge_returned, base)
    /\ UNCHANGED <<merge_base, merge_overrides, merge_snapshot>>
    /\ UNCHANGED toolVars
    /\ UNCHANGED mainVars

MergeInputs ==
    /\ pc = "off"
    /\ Len(merge_returned) < MaxMergeCalls
    /\ LET base == IF merge_returned = <<>> THEN merge_base
                   ELSE merge_returned[Len(merge_returned)]
           merged == 3 + Len(merge_returned)
       IN /\ heap' = [i \in DOMAIN heap \cup {merged} |->
                        IF i = merged THEN merge_inputs(heap[base], overrides_arg)
                        ELSE heap[i]]
          /\ merge_returned' = Append(merge_returned, merged)
    /\ UNCHANGED <<merge_base, merge_overrides, merge_snapshot>>
    /\ UNCHANGED toolVars
    /\ UNCHANGED mainVars

InitMerge ==
    /\ \E a \in MergeMappings :
         \/ \E b \in MergeMappings :
              /\ heap = [i \in {1, 2} |-> IF i = 1 THEN a ELSE b]
              /\ merge_overrides = 2
         \/ /\ heap = [i \in {1} |-> a]
            /\ merge_overrides = 0
    /\ merge_snapshot = heap
    /\ merge_base = 1
    /\ merge_returned = <<>>
    /\ call = IdleCall /\ env = NoEnv /\ pc = "off" /\ ToolIdle /\ MainOff

SpecMerge == InitMerge /\ [][MergeInputs]_vars

\* the tool's step after the merge: run_input['proxyConfiguration'] = ... is an
\* item assignment on the dict merge_inputs returned, which is then handed to
\* _call_actor
InjectProxy ==
    /\ pc = "off"
    /\ merge_returned # <<>>
    /\ LET run_input0 == merge_returned[Len(merge_returned)]
           injected == with_proxy(heap[run_input0], env, call.platform, <<ToString(uuids + 1)>>)
       IN /\ heap' = [heap EXCEPT ![run_input0] = injected]
          /\ sent' = Append(sent, injected)
          /\ uuids' = uuids + (IF "proxyConfiguration" \notin DOMAIN heap[run_input0]
                                   /\ proxy_draws_uuid(env)
                                THEN 1 ELSE 0)
    /\ pc' = "done"
    /\ UNCHANGED <<call, env, search_idx, results, returns, outcome, fetches, last,
                   run_input, classified>>
    /\ UNCHANGED <<merge_base, merge_overrides, merge_returned, merge_snapshot>>
    /\ UNCHANGED mainVars

MergeRunNext == MergeInputs \/ InjectProxy

SpecMergeRun == InitMerge /\ [][MergeRunNext]_vars

\* ======================================================== checked properties
RECURSIVE Flatten(_)
Flatten(seqs) == IF seqs = <<>> THEN <<>> ELSE Head(seqs) \o Flatten(Tail(seqs))

IsBlank(t) == \A i \in 1..Len(t) : t[i] \in Whitespace

AllBlank(ts) == \A i \in 1..Len(ts) : IsBlank(ts[i])

\* the list of strings under a request key (<<>> when the key is not there)
ReqStrs(req, key) ==
    IF key \notin DOMAIN req THEN <<>>
    ELSE IF req[key].k = "str" THEN <<req[key].v>>
    ELSE [i \in 1..Len(req[key].v) |->
            IF req[key].v[i].k = "dict" THEN req[key].v[i].v["url"].v ELSE req[key].v[i].v]

InstagramDone == pc = "done" /\ call.platform = "instagram"

\* C1: an Instagram scrape call with some non-empty bucket that returns has
\* issued exactly one combined invocation (when a URL, handle or hashtag is
\* there) followed by one invocation per free-text query in input order, and
\* nothing else, whatever the invocations returned; its result is the
\* concatenation of the invocations' records in issue order.
C1_FanoutExactCalls ==
    (InstagramDone /\ outcome.kind = "returned" /\ ~AllBlank(call.targets)) =>
        LET c == ig_buckets
            n0 == IF combined_needed THEN 1 ELSE 0
        IN /\ Len(sent) = n0 + Len(c.searches)
           /\ combined_needed =>
                /\ ReqStrs(sent[1], "directUrls") = c.direct_urls
                /\ ReqStrs(sent[1], "usernames") = c.usernames
                /\ ReqStrs(sent[1], "hashtags") = c.hashtags
                /\ "search" \notin DOMAIN sent[1]
           /\ \A i \in 1..Len(c.searches) :
                /\ ReqStrs(sent[n0 + i], "search") = <<c.searches[i]>>
                /\ DOMAIN sent[n0 + i] \cap {"directUrls", "usernames", "hashtags"} = {}
           /\ outcome.value = Flatten(returns)

\* C2: when a sub-invocation of an Instagram fan-out raises after earlier
\* sub-invocations completed, the records of the completed sub-invocations
\* reach the caller together with the error.
C2_PartialResultsKept ==
    (InstagramDone /\ outcome.kind = "raised" /\ Len(returns) >= 1) =>
        outcome.value = Flatten(returns)

DatasetAliases == {"defaultDatasetId", "default_dataset_id", "datasetId", "outputDatasetId"}

HasDatasetId(run) ==
    \E a \in DatasetAliases : a \in DOMAIN run /\ run[a].k = "str" /\ run[a].v # <<>>

HasInlineItems(run) == "items" \in DOMAIN run /\ run["items"].k = "list"

HasOutputItems(run) ==
    /\ "output" \in DOMAIN run
    /\ run["output"].k = "dict"
    /\ "items" \in DOMAIN run["output"].v

ListOrEmpty(x) == IF x.k = "list" THEN x.v ELSE <<>>

\* C3: for a non-null run envelope the records are resolved in strict order:
\* a dataset identifier under any of the four aliases gives the fetched dataset
\* items (even with inline items or output.items present), else an inline
\* items field gives that field (even if empty), else output.items gives that
\* value (empty when null), else the empty sequence.
C3_ResolutionOrder ==
    (pc = "invoked" /\ last.call.k = "dict") =>
        LET run == last.call.v
        IN IF HasDatasetId(run)
           THEN last.fetch.k # "raise" => outcome = Returned(ListOrEmpty(last.fetch))
           ELSE IF HasInlineItems(run) THEN outcome = Returned(run["items"].v)
           ELSE IF HasOutputItems(run)
                THEN outcome = Returned(ListOrEmpty(run["output"].v["items"]))
           ELSE outcome = Returned(<<>>)

C3_Witness ==
    /\ pc = "invoked" /\ last.call.k = "dict"
    /\ "outputDatasetId" \in DOMAIN last.call.v
    /\ "defaultDatasetId" \notin DOMAIN last.call.v
    /\ HasInlineItems(last.call.v) /\ last.call.v["items"].v = <<"r1">>
    /\ HasOutputItems(last.call.v)
    /\ outcome = Returned(<<"r3">>)

\* C4: every Actor Invoker call either returns a resolved sequence of records
\* or raises the one invocation-error kind carrying the actor identifier and
\* the underlying cause, whether the actor call or the dataset fetch fails.
C4_SingleErrorKind ==
    pc = "invoked" =>
        \/ outcome.kind = "returned"
        \/ /\ outcome.kind = "raised"
           /\ outcome.error.type = "RuntimeError"
           /\ outcome.error.actor_id = ActorId(call.platform)
           /\ outcome.error.cause # ""

RequestedNames == {actor_input.platforms[i].platform : i \in 1..Len(actor_input.platforms)}

OtherwiseValidInput ==
    /\ apify_token
    /\ Truthy(actor_input.query)
    /\ max_leads_ok(actor_input)
    /\ \A i \in 1..Len(actor_input.platforms) :
         /\ actor_input.platforms[i].maxItems >= 1
         /\ actor_input.platforms[i].targets.k = "list"

\* C5: a platform list holding a supported platform together with an unknown
\* platform name does not abort the run: the unknown name is skipped with a
\* warning, the tools of the supported platforms are built and the run goes
\* on to dispatch.
C5_UnknownPlatformSkipped ==
    (/\ OtherwiseValidInput
     /\ RequestedNames \cap PlatformName # {}
     /\ RequestedNames \ PlatformName # {}) =>
        /\ mpc # "failed"
        /\ mpc \in {"kickoff", "done"} =>
             /\ tool_instances = RequestedNames \cap PlatformName
             /\ warnings = RequestedNames \ PlatformName

\* C6 as stated: every fatal configuration or validation error aborts the run
\* before any charge event and before any remote invocation.
C6_NoCostBeforeAbort ==
    mpc = "failed" => (charges = <<>> /\ invocations = 0)

\* C6 amended: a fatal error aborts the run before any remote invocation and
\* before the task-completed charge; only the missing-credential error comes
\* before the actor-start charge, every other fatal error comes after it.
C6_AbortBeforeInvocation ==
    mpc = "failed" =>
        /\ invocations = 0
        /\ "task-completed" \notin SeqRange(charges)
        /\ IF apify_token THEN charges = <<"actor-start">> ELSE charges = <<>>

C6_Witness ==
    /\ mpc = "failed"
    /\ merror = "Missing \"query\" attribute in input!"
    /\ charges = <<"actor-start">>
    /\ invocations = 0

\* C7: when every Instagram target is blank (or there is none) the tool makes
\* exactly one remote invocation, with the request of the simple builder
\* (maxItems, the contact flag, no bucket), and returns that invocation's
\* records.
C7_FallbackSingleAttempt ==
    (InstagramDone /\ AllBlank(call.targets)) =>
        /\ Len(sent) = 1
        /\ DOMAIN sent[1] \ {"proxyConfiguration"} =
             {"maxItems"} \cup (IF call.include_contact_info THEN {"addUserInfo"} ELSE {})
        /\ sent[1]["maxItems"] = VInt(call.max_items)
        /\ outcome.kind = "returned" => (Len(returns) = 1 /\ outcome.value = returns[1])
        /\ outcome.kind = "raised" => returns = <<>>

C7_Witness ==
    /\ InstagramDone /\ AllBlank(call.targets) /\ Len(call.targets) = 2
    /\ Len(sent) = 1
    /\ outcome = Returned(<<"r1">>)

OverridesHaveProxy ==
    call.input_overrides.k = "dict" /\ "proxyConfiguration" \in DOMAIN call.input_overrides.v

\* C8: when the overrides carry the key proxyConfiguration, every request sent
\* (generic run, Instagram sub-requests, Instagram fallback) carries exactly
\* that value and the proxy selector is not applied, under every environment
\* policy.
C8_OverrideProxyVerbatim ==
    OverridesHaveProxy =>
        /\ \A i \in 1..Len(sent) :
             /\ "proxyConfiguration" \in DOMAIN sent[i]
             /\ sent[i]["proxyConfiguration"] = call.input_overrides.v["proxyConfiguration"]
        /\ uuids = 0

C8_Witness ==
    /\ OverridesHaveProxy
    /\ call.input_overrides.v["proxyConfiguration"] = VNone
    /\ proxy_draws_uuid(env)
    /\ InstagramDone /\ Len(sent) = 3
    /\ "usernames" \in DOMAIN sent[1] /\ "search" \in DOMAIN sent[2]
    /\ sent[3]["proxyConfiguration"] = VNone

\* ---- classification, as the specification words it
NonBlank(t) == ~IsBlank(t)

\* the bucket of a trimmed target by the precedence URL > handle > hashtag > text
PrefixBucket(t) ==
    LET s == strip(t)
    IN IF startswith(s, HTTP) THEN "url"
       ELSE IF startswith(s, AT) THEN "handle"
       ELSE IF startswith(s, HASH) THEN "hashtag"
       ELSE "text"

\* the platform's bucket: Twitter keeps handle/text, Facebook keeps url/text,
\* LinkedIn takes every target as a URL
PlatformBucket(p, t) ==
    LET b == PrefixBucket(t)
    IN CASE p \in {"instagram", "tiktok"} -> b
         [] p = "twitter" -> IF b = "handle" THEN "handle" ELSE "text"
         [] p = "facebook" -> IF b = "url" THEN "url" ELSE "text"
         [] p = "linkedin" -> "url"

\* the entry a target leaves in its bucket: trimmed, marker removed
BucketEntry(p, t) ==
    LET b == PlatformBucket(p, t)
    IN IF b = "handle" THEN lstrip(strip(t), {"@"})
       ELSE IF b = "hashtag" THEN lstrip(strip(t), {"#"})
       ELSE strip(t)

ExpectedBucket(p, b, ts) ==
    LET InBucket(t) == NonBlank(t) /\ PlatformBucket(p, t) = b
        kept == SelectSeq(ts, InBucket)
    IN [i \in 1..Len(kept) |-> BucketEntry(p, kept[i])]

Buckets == {"url", "handle", "hashtag", "text"}

RequestKey(p, b) ==
    CASE p = "instagram" ->
           (CASE b = "url" -> "directUrls" [] b = "handle" -> "usernames"
              [] b = "hashtag" -> "hashtags" [] b = "text" -> "search")
      [] p = "tiktok" ->
           (CASE b = "url" -> "startUrls" [] b = "handle" -> "handles"
              [] b = "hashtag" -> "hashtags" [] b = "text" -> "searchTerms")
      [] p = "twitter" ->
           (CASE b = "handle" -> "handles" [] b = "text" -> "queries" [] OTHER -> "")
      [] p = "facebook" ->
           (CASE b = "url" -> "startUrls" [] b = "text" -> "searchTerms" [] OTHER -> "")
      [] p = "linkedin" ->
           (CASE b = "url" -> "profileUrls" [] OTHER -> "")

RequestBucket(req, p, b) == ReqStrs(req, RequestKey(p, b))

\* actual holds the expected entries in order, and besides them only empty
\* entries (what a blank target may leave behind)
RECURSIVE Embeds(_, _)
Embeds(expected, actual) ==
    IF actual = <<>> THEN expected = <<>>
    ELSE \/ /\ expected # <<>>
            /\ Head(expected) = Head(actual)
            /\ Embeds(Tail(expected), Tail(actual))
         \/ /\ Head(actual) = <<>>
            /\ Embeds(expected, Tail(actual))

ClassifierBucket(c, b) ==
    CASE b = "url" -> c.direct_urls
      [] b = "handle" -> c.usernames
      [] b = "hashtag" -> c.hashtags
      [] b = "text" -> c.searches

\* C9 as stated: on every platform each target that is non-empty after
\* trimming leaves exactly one entry, in the bucket of the built request that
\* the precedence URL > handle > hashtag > free text gives it, in input order
\* (entries are compared trimmed, so an untrimmed copy of a target counts).
C9_PartitionEveryPlatform ==
    pc = "built" =>
        \A b \in Buckets :
            Embeds(ExpectedBucket(call.platform, b, call.targets),
                   StripAll(RequestBucket(run_input, call.platform, b)))

HasUrlTarget(ts) == \E i \in 1..Len(ts) : PrefixBucket(ts[i]) = "url"

\* C9 amended: the partition holds for the buckets of Instagram's classifier
\* and for the TikTok, Twitter and Facebook requests; LinkedIn keeps only the
\* URL targets (trimmed, in order) once one target is a URL and the raw target
\* list when none is.
C9_PartitionExceptLinkedIn ==
    pc = "built" =>
        CASE call.platform = "instagram" ->
               \A b \in Buckets :
                   Embeds(ExpectedBucket("instagram", b, call.targets),
                          ClassifierBucket(classified, b))
          [] call.platform \in {"tiktok", "twitter", "facebook"} ->
               \A b \in Buckets :
                   Embeds(ExpectedBucket(call.platform, b, call.targets),
                          RequestBucket(run_input, call.platform, b))
          [] call.platform = "linkedin" ->
               ReqStrs(run_input, "profileUrls") =
                   IF HasUrlTarget(call.targets)
                   THEN LET IsUrl(t) == PrefixBucket(t) = "url"
                            urls == SelectSeq(call.targets, IsUrl)
                        IN [i \in 1..Len(urls) |-> strip(urls[i])]
                   ELSE call.targets

C9_Witness ==
    /\ pc = "built"
    /\ call.platform = "tiktok"
    /\ call.targets = <<<<" ", "q", " ">>, URL_A, <<"s">>>>
    /\ ReqStrs(run_input, "searchTerms") = <<<<"q">>, <<"s">>>>
    /\ ReqStrs(run_input, "startUrls") = <<URL_A>>

RECURSIVE SumLen(_)
SumLen(seqs) == IF seqs = <<>> THEN 0 ELSE Len(Head(seqs)) + SumLen(Tail(seqs))

RequestEntries(req, p) ==
    SumLen([i \in 1..4 |->
              RequestBucket(req, p, <<"url", "handle", "hashtag", "text">>[i])])

\* C10: on every platform a target that is empty or only whitespace leaves no
\* entry in any bucket of the built request: the request holds at most one
\* entry per non-blank target, and none when every target is blank.
C10_BlankTargetsDropped ==
    pc = "built" =>
        RequestEntries(run_input, call.platform) <= Len(SelectSeq(call.targets, NonBlank))

\* ---- empty target list
NoOverrides == ~Truthy(call.input_overrides)

ContactFlag(p) ==
    CASE p = "instagram" -> "addUserInfo"
      [] p = "facebook" -> "shouldDownloadVideos"
      [] p = "tiktok" -> "shouldDownloadCaptions"
      [] p = "twitter" -> "includeRetweet"
      [] p = "linkedin" -> "shouldFetchContact"

MinimalKeys ==
    {"maxItems"} \cup (IF call.include_contact_info THEN {ContactFlag(call.platform)} ELSE {})

\* C11 as stated: with an empty target list and no overrides the request built
\* for any of the five platforms has no key besides maxItems and, when contact
\* information is asked for, the platform's contact flag.
C11_EmptyTargetsMinimalRequest ==
    (pc = "built" /\ call.targets = <<>> /\ NoOverrides) =>
        DOMAIN run_input = MinimalKeys

\* C11 amended: that holds for Instagram, Facebook, TikTok and Twitter; the
\* LinkedIn request carries besides those keys maxDepth = 1 and an empty
\* profileUrls list.  maxItems is the requested limit on every platform.
C11_EmptyTargetsExceptLinkedIn ==
    (pc = "built" /\ call.targets = <<>> /\ NoOverrides) =>
        /\ run_input["maxItems"] = VInt(call.max_items)
        /\ IF call.platform = "linkedin"
           THEN /\ DOMAIN run_input = MinimalKeys \cup {"profileUrls", "maxDepth"}
                /\ run_input["profileUrls"] = VList(<<>>)
                /\ run_input["maxDepth"] = VInt(1)
           ELSE DOMAIN run_input = MinimalKeys

C11_Witness ==
    /\ pc = "built" /\ call.targets = <<>> /\ call.input_overrides = VDict(EmptyDict)
    /\ call.platform = "facebook" /\ call.include_contact_info
    /\ run_input = [maxItems |-> VInt(DefaultMaxItems), shouldDownloadVideos |-> VBool(FALSE)]

\* C12: an empty outcome is a success: a null run envelope resolves to the
\* empty sequence without an error, and so does a run envelope with a dataset
\* identifier whose fetch returns zero items.
C12_EmptyOutcomeIsSuccess ==
    pc = "invoked" =>
        /\ last.call = VNone => outcome = Returned(<<>>)
        /\ (last.call.k = "dict" /\ HasDatasetId(last.call.v) /\ last.fetch = VList(<<>>)) =>
              outcome = Returned(<<>>)

C12_Witness ==
    /\ pc = "invoked" /\ last.call.k = "dict"
    /\ HasDatasetId(last.call.v) /\ last.fetch = VList(<<>>)
    /\ HasInlineItems(last.call.v) /\ last.call.v["items"].v = <<"r1">>
    /\ outcome.kind = "returned" /\ outcome.value = <<>>

\* ---- no platform tool
NoSupportedPlatform == RequestedNames \cap PlatformName = {}

\* C13: when no requested platform has a tool (every name is unknown, or the
\* platform list is empty) the run never reaches the agent kickoff, makes no
\* remote invocation, builds no tool, and can only end in the failed state
\* with an error message.
C13_NoToolsIsFatal ==
    NoSupportedPlatform =>
        /\ mpc \notin {"kickoff", "done"}
        /\ invocations = 0
        /\ tool_instances = {}
        /\ ~ENABLED MainNext => (mpc = "failed" /\ merror # "")

C13_Witness ==
    /\ OtherwiseValidInput
    /\ Len(actor_input.platforms) = 2 /\ NoSupportedPlatform
    /\ mpc = "failed" /\ merror = "Invalid platform configuration"
    /\ invocations = 0

\* ---- LinkedIn profile URLs
TrimmedHasUrlPrefix(t) == startswith(strip(t), HTTP)

RECURSIVE TrimmedUrlTargets(_)
TrimmedUrlTargets(ts) ==
    IF ts = <<>> THEN <<>>
    ELSE IF TrimmedHasUrlPrefix(Head(ts))
         THEN <<strip(Head(ts))>> \o TrimmedUrlTargets(Tail(ts))
         ELSE TrimmedUrlTargets(Tail(ts))

\* C14: the LinkedIn request's profileUrls is the list, in input order, of the
\* trimmed targets that start with the URL prefix as soon as one target does
\* (the other targets are dropped); it is the raw target list, untrimmed, only
\* when no target does; maxDepth is 1.
C14_LinkedInProfileUrls ==
    (pc = "built" /\ call.platform = "linkedin") =>
        /\ run_input["maxDepth"] = VInt(1)
        /\ run_input["profileUrls"] =
             IF TrimmedUrlTargets(call.targets) # <<>>
             THEN StrList(TrimmedUrlTargets(call.targets))
             ELSE StrList(call.targets)

C14_Witness ==
    /\ pc = "built" /\ call.platform = "linkedin"
    /\ call.targets = <<<<"s">>, <<" ", "h", "t", "t", "p", "b", "\t">>, <<" ">>>>
    /\ run_input["profileUrls"] = StrList(<<<<"h", "t", "t", "p", "b">>>>)

\* C15: one Actor Invoker call attempts the remote actor call exactly once and
\* fetches a dataset at most once; when the actor call raises, the error is
\* surfaced with no second attempt and no dataset fetch.
C15_NoRetry ==
    pc = "invoked" =>
        /\ Len(sent) = 1
        /\ fetches <= 1
        /\ last.call.k = "raise" => (fetches = 0 /\ outcome.kind = "raised")

C15_Witness ==
    /\ pc = "invoked" /\ last.call.k = "raise"
    /\ Len(sent) = 1 /\ fetches = 0
    /\ outcome.kind = "raised" /\ outcome.error.cause = "ApifyApiError"

\* ---- proxy policy, as the specification words it
\* the enable flag, trimmed and case-folded, is one of 0 / false / no / off
FlagOff(e) ==
    /\ "APIFY_USE_PROXY" \in DOMAIN e
    /\ lower(strip(e["APIFY_USE_PROXY"])) \in
         {<<"0">>, <<"f", "a", "l", "s", "e">>, <<"n", "o">>, <<"o", "f", "f">>}

\* the comma-separated group list is given and names no group
GroupListEmpty(e) ==
    /\ "APIFY_PROXY_GROUPS" \in DOMAIN e
    /\ LET pieces == split(e["APIFY_PROXY_GROUPS"], ",")
       IN \A i \in 1..Len(pieces) : IsBlank(pieces[i])

PolicyOff(e) == FlagOff(e) \/ GroupListEmpty(e)

\* C16: when the overrides supply no proxyConfiguration: under a disabled
\* policy (flag off, or empty group list) the proxy selector returns null and
\* no request sent has a proxyConfiguration key; under an enabled policy every
\* request sent carries a proxyConfiguration that turns the proxy on with a
\* non-empty group list.
C16_ProxyFieldFollowsPolicy ==
    ~OverridesHaveProxy =>
        IF PolicyOff(env)
        THEN /\ default_proxy_configuration(env, call.platform, <<"0">>) = VNone
             /\ \A i \in 1..Len(sent) : "proxyConfiguration" \notin DOMAIN sent[i]
        ELSE \A i \in 1..Len(sent) :
               /\ "proxyConfiguration" \in DOMAIN sent[i]
               /\ sent[i]["proxyConfiguration"].k = "dict"
               /\ sent[i]["proxyConfiguration"].v["useApifyProxy"] = VBool(TRUE)
               /\ Len(sent[i]["proxyConfiguration"].v["groups"].v) > 0

C16_Witness ==
    /\ ~OverridesHaveProxy
    /\ env = [APIFY_PROXY_GROUPS |-> <<>>]
    /\ InstagramDone /\ Len(sent) = 2
    /\ \A i \in 1..2 : "proxyConfiguration" \notin DOMAIN sent[i]

\* ---- sticky sessions, as the specification words them
StickyMode(e) ==
    /\ "APIFY_PROXY_SESSION_MODE" \in DOMAIN e
    /\ lower(strip(e["APIFY_PROXY_SESSION_MODE"])) = <<"s", "t", "i", "c", "k", "y">>

\* the configured prefix, trimmed; the platform name when none is configured
SessionPrefix(e, p) ==
    IF "APIFY_PROXY_SESSION_PREFIX" \in DOMAIN e /\ ~IsBlank(e["APIFY_PROXY_SESSION_PREFIX"])
    THEN strip(e["APIFY_PROXY_SESSION_PREFIX"])
    ELSE PlatformValue(p)

HasSession(req) == "session" \in DOMAIN req["proxyConfiguration"].v

SessionOf(req) == req["proxyConfiguration"].v["session"].v

\* C17: every request sent with the default proxy configuration (Instagram
\* sub-requests included) has, under sticky mode, a session of the form
\* prefix "-" suffix with a non-empty suffix, the prefix being the configured
\* one or else the platform name, and no two requests of the call have the
\* same session; under any other mode it has no session field.
C17_StickySessionPerInvocation ==
    (~OverridesHaveProxy /\ ~PolicyOff(env)) =>
        \A i \in 1..Len(sent) :
            /\ "proxyConfiguration" \in DOMAIN sent[i]
            /\ IF StickyMode(env)
               THEN /\ HasSession(sent[i])
                    /\ startswith(SessionOf(sent[i]),
                                  SessionPrefix(env, call.platform) \o <<"-">>)
                    /\ Len(SessionOf(sent[i])) > Len(SessionPrefix(env, call.platform)) + 1
                    /\ \A j \in 1..Len(sent) :
                          j # i => SessionOf(sent[j]) # SessionOf(sent[i])
               ELSE ~HasSession(sent[i])

C17_Witness ==
    /\ ~OverridesHaveProxy
    /\ env = [APIFY_PROXY_SESSION_MODE |-> <<"S", "t", "i", "c", "k", "y", " ">>]
    /\ InstagramDone /\ Len(sent) = 2
    /\ "usernames" \in DOMAIN sent[1] /\ "search" \in DOMAIN sent[2]
    /\ SessionOf(sent[1]) = PlatformValue("instagram") \o <<"-", "1">>
    /\ SessionOf(sent[2]) = PlatformValue("instagram") \o <<"-", "2">>

\* ---- input merger, as the specification words it
\* a: the caller's base, b: the overrides ({} when None), m: the first result
MergeA == heap[merge_base]

MergeB == IF merge_overrides = 0 THEN EmptyDict ELSE heap[merge_overrides]

MergeM == heap[merge_returned[1]]

BothMappings(a, b, key) ==
    key \in DOMAIN a /\ key \in DOMAIN b /\ a[key].k = "dict" /\ b[key].k = "dict"

\* a and b hold mappings under the same key and, one level deeper, under the
\* same inner key
DeepConflict(a, b) ==
    \E key \in DOMAIN b :
        /\ BothMappings(a, b, key)
        /\ \E y \in DOMAIN b[key].v : BothMappings(a[key].v, b[key].v, y)

\* C18: merging the overrides b a second time into merge(a, b) changes
\* nothing, for every base a and overrides b without a conflict nested deeper
\* than one level.
C18_MergeIdempotent ==
    (Len(merge_returned) >= 2 /\ ~DeepConflict(MergeA, MergeB)) =>
        heap[merge_returned[2]] = heap[merge_returned[1]]

C18_Witness ==
    /\ Len(merge_returned) >= 2 /\ merge_overrides # 0
    /\ MergeA = [x |-> VDict([p |-> VInt(1)]), y |-> VList(<<VInt(1)>>)]
    /\ MergeB = [x |-> VDict([q |-> VInt(2)]), y |-> VList(<<VInt(2)>>)]
    /\ MergeM = [x |-> VDict([p |-> VInt(1), q |-> VInt(2)]), y |-> VList(<<VInt(2)>>)]
    /\ heap[merge_returned[2]] = MergeM

\* C19: with overrides null or {} the merger returns a mapping equal to the
\* base, held in an object that is neither the base nor the overrides.
C19_MergeIdentity ==
    (Len(merge_returned) >= 1 /\ MergeB = EmptyDict) =>
        /\ MergeM = MergeA
        /\ merge_returned[1] \notin {merge_base, merge_overrides}

C19_Witness ==
    /\ Len(merge_returned) >= 1 /\ merge_overrides # 0 /\ MergeB = EmptyDict
    /\ MergeA = [x |-> VDict([p |-> Deep1]), y |-> VInt(2)]
    /\ merge_returned[1] = 3 /\ heap[3] = MergeA

\* C20: for every key of the overrides: when base and overrides both hold a
\* mapping there, the result holds their one-level union where the overrides'
\* entries win whole (an entry one level deeper is replaced, not merged);
\* otherwise the result holds the overrides' value (an array replaces an
\* array); every key of the base that the overrides lack keeps its value, and
\* the result has no other key.
C20_MergePerKey ==
    Len(merge_returned) >= 1 =>
        /\ DOMAIN MergeM = DOMAIN MergeA \cup DOMAIN MergeB
        /\ \A key \in DOMAIN MergeB :
             IF BothMappings(MergeA, MergeB, key)
             THEN /\ MergeM[key].k = "dict"
                  /\ DOMAIN MergeM[key].v = DOMAIN MergeA[key].v \cup DOMAIN MergeB[key].v
                  /\ \A y \in DOMAIN MergeB[key].v : MergeM[key].v[y] = MergeB[key].v[y]
                  /\ \A y \in DOMAIN MergeA[key].v \ DOMAIN MergeB[key].v :
                        MergeM[key].v[y] = MergeA[key].v[y]
             ELSE MergeM[key] = MergeB[key]
        /\ \A key \in DOMAIN MergeA \ DOMAIN MergeB : MergeM[key] = MergeA[key]

C20_Witness ==
    /\ Len(merge_returned) >= 1 /\ merge_overrides # 0
    /\ MergeA = [x |-> VDict([p |-> Deep1]), y |-> VList(<<VInt(1)>>)]
    /\ MergeB = [x |-> VDict([p |-> Deep2, q |-> VInt(2)])]
    /\ MergeM = [x |-> VDict([p |-> Deep2, q |-> VInt(2)]), y |-> VList(<<VInt(1)>>)]

\* C21: the caller's base dict and overrides dict hold, after every
\* merge_inputs call and after proxyConfiguration was put into the merged
\* request, exactly the contents (nested mappings included) they held before
\* the first call.
C21_MergeLeavesInputsAlone ==
    \A i \in DOMAIN merge_snapshot : heap[i] = merge_snapshot[i]

C21_Witness ==
    /\ pc = "done" /\ merge_overrides # 0
    /\ merge_snapshot[merge_base] = [x |-> VDict([p |-> Deep1]), y |-> VList(<<VInt(1)>>)]
    /\ merge_snapshot[merge_overrides] = [x |-> VDict([p |-> Deep2, q |-> VInt(2)])]
    /\ merge_returned = <<3>>
    /\ "proxyConfiguration" \in DOMAIN heap[3]
    /\ heap[3]["x"] = VDict([p |-> Deep2, q |-> VInt(2)])
    /\ heap[merge_base] = merge_snapshot[merge_base]
    /\ heap[merge_overrides] = merge_snapshot[merge_overrides]

\* ---- handle and hashtag entries
AllNonEmpty(seq) == \A i \in 1..Len(seq) : seq[i] # <<>>

\* C22: every entry of the handle and hashtag buckets (Instagram's classifier
\* usernames / hashtags, the TikTok request's handles / hashtags, the Twitter
\* request's handles) is a non-empty string, whatever the target list.
C22_MarkerEntriesNonEmpty ==
    pc = "built" =>
        CASE call.platform = "instagram" ->
               AllNonEmpty(classified.usernames) /\ AllNonEmpty(classified.hashtags)
          [] call.platform = "tiktok" ->
               AllNonEmpty(ReqStrs(run_input, "handles"))
                 /\ AllNonEmpty(ReqStrs(run_input, "hashtags"))
          [] call.platform = "twitter" -> AllNonEmpty(ReqStrs(run_input, "handles"))
          [] OTHER -> TRUE

====
